---- MODULE Spec2Model ----
(***************************************************************************)
(* Model of the client-side completion tracking of intrascribe: the task   *)
(* poller APIClient.pollV2TaskStatus and the realtime subscriptionManager  *)
(* (web/lib/supabase.ts), and the retranscription watch of HomePage        *)
(* (web/app/page.tsx).                                                     *)
(*                                                                         *)
(* The poller is an async function: its atomic steps are the stretches of  *)
(* code between two awaits (the status fetch and the setTimeout sleeps).   *)
(* The subscription manager is synchronous: each of its methods and each   *)
(* transport callback is one atomic step of the event loop.                *)
(***************************************************************************)
EXTENDS Integers, Sequences, FiniteSets, TLC

(***************************************************************************)
(* Bounds of the model.                                                    *)
(***************************************************************************)
\* pollV2TaskStatus is called with maxAttempts in 1..MaxAttemptsBound
MaxAttemptsBound == 7
\* the transport opens at most MaxHandles subscriptions in one behaviour
MaxHandles == 2
\* handleRetranscribe is accepted at most MaxJobs times in one behaviour
MaxJobs == 2
MaxLen == 2

(***************************************************************************)
(* Program constants of pollV2TaskStatus.                                  *)
(***************************************************************************)
\* setTimeout(resolve, 3000): the delay after a pending status or a plain error
BaseDelayMs == 3000
\* setTimeout(resolve, 1000): the delay after an authorization error
AuthDelayMs == 1000
\* if (attempt >= 5): the authorization errors' limit on the attempt index
AuthRetryLimit == 5
\* if (attempt >= maxAttempts - 3): the window of last attempts that rethrow
RethrowWindow == 3

VARIABLES
    \* ---- pollV2TaskStatus: one call of it
    maxAttempts,     \* the parameter maxAttempts
    attempt,         \* the loop variable
    pc,              \* "fetching" (await fetch), "sleeping" (await setTimeout), "done"
    sleepMs,         \* the delay of the pending setTimeout, 0 when none
    settled,         \* how the returned promise settled
    \* ---- history of the call (observations, never read by the code)
    fetches,         \* number of status fetches issued
    shortWaits,      \* number of 1000 ms sleeps started
    baseWaits,       \* number of 3000 ms sleeps started
    all403,          \* every fetch so far failed with HTTP 403
    allNonTerminal,  \* every fetch so far returned pending or processing
    consecAuth,      \* length of the run of HTTP 403 fetches ending at the last one
    last,            \* the last fetch outcome handled and what the loop did with it
    \* ---- subscriptionManager
    activeChannels,  \* the Map activeChannels: channel name -> handle, NoHandle when absent
    \* ---- the realtime transport (supabase.channel(...).subscribe(...))
    nextHandle,      \* the next handle the transport hands out
    chanState,       \* per handle: "unopened", "live", "torn", "closed"
    chanName,        \* per handle: the channelName its callbacks closed over
    chanTable,       \* per handle: the table its postgres_changes filter names
    \* ---- history of the manager's calls (observations, never read by the code)
    prevRet,         \* per name: what the last create call returned, since n was last removed
    opensSince,      \* per name: transport subscriptions opened since n was last removed
    lastOp,          \* the last operation of the manager and what it returned
    \* ---- HomePage: what useRecordingSessions() and the selection give
    sessions,        \* per session id: its status and its first transcription
    selectedSessionId,
    \* ---- HomePage: the retranscription watch (page.tsx:884-895)
    isRetranscribing,
    hasSeenProcessing,
    retranscribeBaseline,
    forceHideRetranscribeOverlay,
    effectPending,   \* a render is committed whose effects have not run yet
    \* ---- the calls of handleRetranscribe, one per accepted submission
    nextJob,         \* the number of the next accepted submission
    jobPc,           \* per job: where its handleRetranscribe and fallback chain are
    jobSession,      \* per job: retranscribeSessionId
    \* ---- history (observation, never read by the code)
    successSignals,  \* toast.success('转录重新处理完成！') calls since the last submission
    lastEnd,         \* what set isRetranscribing to false last, since the last submission
    \* ---- APIClient: one call of a submission operation
    subOp,           \* the operation called, "none" before the first call
    subResponse,     \* what the submission endpoint answered
    subPolled,       \* the taskId given to pollV2TaskStatus, "none" when it was not called
    subPoll,         \* "none", "running", or how the promise of the poll settled
    subReturn        \* what the caller has got: "none" so far, "success" or "failure"

pollVars == <<maxAttempts, attempt, pc, sleepMs, settled, fetches, shortWaits,
              baseWaits, all403, allNonTerminal, consecAuth, last>>

chanVars == <<activeChannels, nextHandle, chanState, chanName, chanTable,
              prevRet, opensSince, lastOp>>

watchVars == <<sessions, selectedSessionId, isRetranscribing, hasSeenProcessing,
               retranscribeBaseline, forceHideRetranscribeOverlay, effectPending,
               nextJob, jobPc, jobSession, successSignals, lastEnd>>
submitVars == <<subOp, subResponse, subPolled, subPoll, subReturn>>
vars == <<pollVars, chanVars, watchVars, submitVars>>

(***************************************************************************)
(* HomePage: the sessions it is given and its state after the first        *)
(* render.                                                                 *)
(***************************************************************************)
SessionIds == {"s1", "s2"}
\* useState<string>(''): no session selected
NoSelection == ""
Jobs == 1..MaxJobs
\* the statuses the row of a session takes here; the page tests for
\* 'processing' and 'completed' only, so one more status stands for the rest.
\* s1 is a finished recording that is retranscribed, s2 one that is not
\* finished and that may be gone from the list ("absent": sessions.find
\* gives undefined)
StatusesOf(s) ==
    IF s = "s1" THEN {"processing", "completed", "failed"}
    ELSE {"created", "absent"}

\* sessions.find(s => s.id === id) finds the session
InList(row) == row.status # "absent"

\* transcriptions[0] of a session: absent, or its id, the length of its
\* content and its segments (an array, a string, or neither)
NoTranscription == [id |-> "undefined", contentLength |-> 0,
                    segments |-> [kind |-> "absent", len |-> 0]]
TranscriptionsOf(s) ==
    IF s = "s1"
    THEN {NoTranscription,
          [id |-> "t1", contentLength |-> 0, segments |-> [kind |-> "null", len |-> 0]],
          [id |-> "t1", contentLength |-> 42, segments |-> [kind |-> "array", len |-> 3]]}
    ELSE {[id |-> "t2", contentLength |-> 42, segments |-> [kind |-> "string", len |-> 3]]}
SessionRows(s) == [status : StatusesOf(s), transcription : TranscriptionsOf(s)]

\* useState(null) of retranscribeBaseline
NoBaseline == [id |-> "null", contentLength |-> 0 - 1, segmentsLength |-> 0 - 1]

\* the session lists the page starts from: recordings that are finished or
\* were just created
InitialSessions ==
    {f \in [SessionIds -> UNION {SessionRows(s) : s \in SessionIds}] :
        /\ \A s \in SessionIds : f[s] \in SessionRows(s)
        /\ f["s1"].status = "completed"
        /\ f["s2"].status = "created"}

\* HomePage after its first render and effects, given the list f: nothing
\* selected, no job
PageMountedWith(f) ==
    /\ sessions = f
    /\ selectedSessionId = NoSelection
    /\ isRetranscribing = FALSE
    /\ hasSeenProcessing = FALSE
    /\ retranscribeBaseline = NoBaseline
    /\ forceHideRetranscribeOverlay = FALSE
    /\ effectPending = FALSE
    /\ nextJob = 1
    /\ jobPc = [j \in Jobs |-> "unused"]
    /\ jobSession = [j \in Jobs |-> NoSelection]
    /\ successSignals = 0
    /\ lastEnd = "none"

PageMounted == \E f \in InitialSessions : PageMountedWith(f)

\* the page as the poller's and the manager's specifications hold it: one
\* list, never touched
PageNotUsed ==
    PageMountedWith([s \in SessionIds |->
                       [status |-> IF s = "s1" THEN "completed" ELSE "created",
                        transcription |-> CHOOSE t \in TranscriptionsOf(s) : t.id # "t1"]])


(***************************************************************************)
(* The answer of a submission endpoint: the HTTP status is ok or not, and  *)
(* the JSON body has a task_id or none, status "started" or not, and a     *)
(* poll_url or none.                                                       *)
(***************************************************************************)
TaskIds == {"k1", "k2"}
NoTaskId == "absent"
HttpFailure == [ok |-> FALSE, task_id |-> NoTaskId, started |-> FALSE, poll_url |-> FALSE]
OkResponses ==
    [ok : {TRUE}, task_id : TaskIds \cup {NoTaskId}, started : BOOLEAN, poll_url : BOOLEAN]
Responses == OkResponses \cup {HttpFailure}

\* no submission operation was called
NoSubmission ==
    /\ subOp = "none"
    /\ subResponse = HttpFailure
    /\ subPolled = "none"
    /\ subPoll = "none"
    /\ subReturn = "none"

(***************************************************************************)
(* Error messages. A message is a sequence of words, so that               *)
(* error.message.includes('403') is computed on the message itself.        *)
(***************************************************************************)
NoResult == "none"
NoMsg == <<>>

\* new Error(`HTTP ${response.status}`)
HttpErrorMsg(code) == <<"HTTP", code>>
\* the TypeError of a rejected fetch, or the SyntaxError of response.json()
NetworkErrorMsg == <<"Failed", "to", "fetch">>
\* '任务执行失败'
DefaultFailMsg == <<"task", "execution", "failed">>
\* '任务被取消'
CancelledMsg == <<"task", "cancelled">>
\* `认证失败，请重新登录: ${error.message}`
AuthFailedMsg(msg) == <<"auth", "failed", "login", "again">> \o msg
\* `V2任务轮询超时 (${maxAttempts} 次尝试)`
TimeoutMsg(n) == <<"V2", "poll", "timeout", ToString(n), "attempts">>

\* error.message.includes('403')
Includes403(msg) == \E i \in DOMAIN msg : msg[i] = "403"

(***************************************************************************)
(* What one status fetch can produce.                                      *)
(***************************************************************************)
Outcome(t, c, s, r, e) == [type |-> t, code |-> c, status |-> s, result |-> r, error |-> e]

\* the result payloads of a completed task: JSON objects, which are truthy;
\* NoResult stands for a result that is absent or null
Results == {"r1", "r2"}
\* the error field of a failed task: absent, plain, or a text that holds 403
BackendErrors == {NoMsg, <<"boom">>, <<"upstream", "403">>}

NetOutcome == Outcome("neterr", "none", "none", NoResult, NoMsg)
HttpOutcome(c) == Outcome("http", c, "none", NoResult, NoMsg)
JsonOutcome(s, r, e) == Outcome("json", "200", s, r, e)

FetchOutcomes ==
    {NetOutcome, HttpOutcome("403"), HttpOutcome("500")}
    \cup {JsonOutcome(s, NoResult, NoMsg) : s \in {"pending", "processing", "cancelled", "paused"}}
    \cup {JsonOutcome("completed", r, NoMsg) : r \in Results \cup {NoResult}}
    \cup {JsonOutcome("failed", NoResult, e) : e \in BackendErrors}

NoOutcome == Outcome("nothing", "none", "none", NoResult, NoMsg)

\* getTaskStatus of ./api-types: the flags of a task status response, with
\* pending and processing both counted as pending
getTaskStatus(resp) ==
    [isCompleted |-> resp.status = "completed",
     isFailed    |-> resp.status = "failed",
     isCancelled |-> resp.status = "cancelled",
     isPending   |-> resp.status \in {"pending", "processing"}]

(***************************************************************************)
(* The loop body. A completion says how a block of code ends.              *)
(***************************************************************************)
Completion(k, v, m, d) == [kind |-> k, val |-> v, msg |-> m, ms |-> d]
Return(v) == Completion("return", v, NoMsg, 0)
Throw(m) == Completion("throw", NoResult, m, 0)
\* await new Promise(resolve => setTimeout(resolve, d)), then the next iteration
Sleep(d) == Completion("sleep", NoResult, NoMsg, d)
\* the end of the body is reached: the next iteration starts at once
FallThrough == Completion("next", NoResult, NoMsg, 0)

\* taskStatusResponse.result as a condition
Truthy(r) == r # NoResult

CompletedAnyResult(status, resp) == status.isCompleted
CompletedWrongFlag(status, resp) == status.isPending /\ Truthy(resp.result)
\* if (status.isCompleted && taskStatusResponse.result)
CompletedWithResult(status, resp) == status.isCompleted /\ Truthy(resp.result)

\* taskStatusResponse.error || '任务执行失败'
FailureMsg(resp) == IF resp.error # NoMsg THEN resp.error ELSE DefaultFailMsg

UnknownStatusWaits == Sleep(BaseDelayMs)
\* console.warn('未知任务状态'), the end of the try block
UnknownStatus == FallThrough

\* the try block, from the fetch to its last statement
TryBlock(o) ==
    IF o.type = "neterr" THEN Throw(NetworkErrorMsg)
    ELSE IF o.type = "http" THEN Throw(HttpErrorMsg(o.code))
    ELSE LET status == getTaskStatus(o) IN
         IF CompletedWithResult(status, o) THEN Return(o.result)
         ELSE IF status.isFailed THEN Throw(FailureMsg(o))
         ELSE IF status.isCancelled THEN Throw(CancelledMsg)
         ELSE IF status.isPending THEN Sleep(BaseDelayMs)
         ELSE UnknownStatus

AuthExhaustedOffByOne(a) == a > AuthRetryLimit
\* if (attempt >= 5)
AuthExhausted(a) == a >= AuthRetryLimit

ShouldRethrowLastTwo(a, m) == a >= m - 2
\* if (attempt >= maxAttempts - 3)
ShouldRethrow(a, m) == a >= m - RethrowWindow

\* the catch block
CatchBlock(msg, a, m) ==
    IF Includes403(msg)
    THEN IF AuthExhausted(a) THEN Throw(AuthFailedMsg(msg)) ELSE Sleep(AuthDelayMs)
    ELSE IF ShouldRethrow(a, m) THEN Throw(msg) ELSE Sleep(BaseDelayMs)

\* one iteration of the loop on fetch outcome o
Iteration(o, a, m) ==
    LET t == TryBlock(o) IN
    IF t.kind = "throw" THEN CatchBlock(t.msg, a, m) ELSE t

LoopCondOffByOne(a, m) == a <= m
\* attempt < maxAttempts
LoopCond(a, m) == a < m

Unsettled == [kind |-> "none", val |-> NoResult, msg |-> NoMsg]
Resolved(v) == [kind |-> "resolved", val |-> v, msg |-> NoMsg]
Rejected(m) == [kind |-> "rejected", val |-> NoResult, msg |-> m]

IsAuth403(o) == o.type = "http" /\ o.code = "403"
IsNonTerminal(o) == o.type = "json" /\ o.status \in {"pending", "processing"}

(***************************************************************************)
(* subscriptionManager and the realtime transport under it.                *)
(*                                                                         *)
(* A handle is what supabase.channel(name).on(...).subscribe(cb) returns.  *)
(* Its transport subscription is live from the moment it is opened until   *)
(* it is torn down: by a successful channel.unsubscribe() ("torn": the     *)
(* CLOSED status is still to be reported) or by the transport itself       *)
(* ("closed"). The status callback of a handle closes over channelName,    *)
(* not over the handle.                                                    *)
(***************************************************************************)
Names == {"n1", "n2"}
Handles == 1..MaxHandles
\* Map.get of a missing key, and the null that a failed creation returns
NoHandle == 0
\* prevRet: no create call on the name since its last removal
NoCall == 0 - 1

IsLive(h) == chanState[h] = "live"
\* the live transport subscriptions opened under name n
LiveFor(n) == {h \in Handles : IsLive(h) /\ chanName[h] = n}

hasChannelNever(channelName) == FALSE
\* this.activeChannels.has(channelName)
hasChannel(channelName) == activeChannels[channelName] # NoHandle

\* this.activeChannels.size
getActiveChannelCount == Cardinality({n \in Names : activeChannels[n] # NoHandle})

\* what channel.unsubscribe() can do: tear the subscription down, or fail with
\* an exception and leave the subscription as it was
UnsubscribeOutcomes == {"ok", "throw"}

\* channel.unsubscribe() on handle h with outcome u, as the new chanState
Unsubscribe(cs, h, u) ==
    IF u = "ok" /\ cs[h] = "live" THEN [cs EXCEPT ![h] = "torn"] ELSE cs

\* the record of an operation: what it returned, what the last create call on
\* the name had returned (prev), whether it opened a subscription, what the
\* channel.unsubscribe() it called did ("none": not called), and whether it
\* let an exception out. The record of a delivered event adds the state of
\* the document, whether the event passed the session filter, whether the
\* callback was invoked and what it did; the record of healthCheck adds the
\* object it returned and the names it warned about
OpRecord(op, name, ret, prev, opened, unsub, raised) ==
    [op |-> op, name |-> name, ret |-> ret, prev |-> prev, opened |-> opened,
     unsub |-> unsub, raised |-> raised,
     doc |-> "none", passes |-> FALSE, invoked |-> FALSE, cb |-> "none",
     healthy |-> TRUE, count |-> 0, channels |-> {}, warned |-> {}]

\* the state after new subscriptionManager: an empty map, nothing opened
ManagerConstructed ==
    /\ activeChannels = [n \in Names |-> NoHandle]
    /\ nextHandle = 1
    /\ chanState = [h \in Handles |-> "unopened"]
    /\ chanName = [h \in Handles |-> "none"]
    /\ chanTable = [h \in Handles |-> "none"]
    /\ prevRet = [n \in Names |-> NoCall]
    /\ opensSince = [n \in Names |-> 0]
    /\ lastOp = [op |-> "none", name |-> "none", ret |-> NoHandle, prev |-> NoCall,
                 opened |-> FALSE, unsub |-> "none", raised |-> FALSE,
                 doc |-> "none", passes |-> FALSE, invoked |-> FALSE, cb |-> "none",
                 healthy |-> TRUE, count |-> 0, channels |-> {}, warned |-> {}]

createRaisesOnOpenFailure(openOk) == ~openOk
\* whether a create call lets the exception of the transport out:
\* catch (error) { return null }
createRaises(openOk) == FALSE

\* the body shared by createChannel and createTranscriptionChannel, which differ
\* in the table and the filter of the subscription they open; openOk says
\* whether supabase.channel(...).on(...).subscribe(...) returns or throws
CreateOn(op, table, channelName, openOk) ==
    IF hasChannel(channelName)
    THEN \* return this.activeChannels.get(channelName)
         /\ lastOp' = OpRecord(op, channelName, activeChannels[channelName],
                               prevRet[channelName], FALSE, "none", FALSE)
         /\ prevRet' = [prevRet EXCEPT ![channelName] = activeChannels[channelName]]
         /\ UNCHANGED <<activeChannels, nextHandle, chanState, chanName, chanTable, opensSince>>
    ELSE IF openOk
    THEN \* this.activeChannels.set(channelName, channel); return channel
         /\ nextHandle <= MaxHandles
         /\ chanState' = [chanState EXCEPT ![nextHandle] = "live"]
         /\ chanName' = [chanName EXCEPT ![nextHandle] = channelName]
         /\ chanTable' = [chanTable EXCEPT ![nextHandle] = table]
         /\ activeChannels' = [activeChannels EXCEPT ![channelName] = nextHandle]
         /\ nextHandle' = nextHandle + 1
         /\ opensSince' = [opensSince EXCEPT ![channelName] = @ + 1]
         /\ lastOp' = OpRecord(op, channelName, nextHandle, prevRet[channelName], TRUE,
                               "none", FALSE)
         /\ prevRet' = [prevRet EXCEPT ![channelName] = nextHandle]
    ELSE \* catch (error) { return null }
         /\ lastOp' = OpRecord(op, channelName, NoHandle, prevRet[channelName], FALSE,
                               "none", createRaises(openOk))
         /\ prevRet' = [prevRet EXCEPT ![channelName] = NoHandle]
         /\ UNCHANGED <<activeChannels, nextHandle, chanState, chanName, chanTable, opensSince>>

createChannel ==
    /\ \E channelName \in Names, openOk \in BOOLEAN :
         CreateOn("createChannel", "recording_sessions", channelName, openOk)
    /\ UNCHANGED <<pollVars, watchVars, submitVars>>

createTranscriptionChannel ==
    /\ \E channelName \in Names, openOk \in BOOLEAN :
         CreateOn("createTranscriptionChannel", "transcriptions", channelName, openOk)
    /\ UNCHANGED <<pollVars, watchVars, submitVars>>

removeChannelMapNoCatch(ac, channelName, u) ==
    IF ac[channelName] # NoHandle /\ u = "ok"
    THEN [ac EXCEPT ![channelName] = NoHandle] ELSE ac
\* the map after removeChannel(channelName): the entry is deleted after the
\* unsubscribe, and in the catch block when the unsubscribe throws
removeChannelMap(ac, channelName, u) ==
    IF ac[channelName] # NoHandle
    THEN [ac EXCEPT ![channelName] = NoHandle] ELSE ac

\* whether removeChannel lets the exception of channel.unsubscribe() out: the
\* catch block takes it, and Map.delete does not throw
removeChannelRaises(u) == FALSE

\* removeChannel(channelName), with u what channel.unsubscribe() does if called
RemoveOn(op, channelName, u) ==
    /\ IF activeChannels[channelName] # NoHandle
       THEN chanState' = Unsubscribe(chanState, activeChannels[channelName], u)
       ELSE UNCHANGED chanState
    /\ activeChannels' = removeChannelMap(activeChannels, channelName, u)
    /\ prevRet' = [prevRet EXCEPT ![channelName] = NoCall]
    /\ opensSince' = [opensSince EXCEPT ![channelName] = 0]
    /\ lastOp' = OpRecord(op, channelName, NoHandle, NoCall, FALSE,
                          IF activeChannels[channelName] # NoHandle THEN u ELSE "none",
                          removeChannelRaises(u))

removeChannel ==
    /\ \E channelName \in Names, u \in UnsubscribeOutcomes :
         RemoveOn("removeChannel", channelName, u)
    /\ UNCHANGED <<nextHandle, chanName, chanTable>>
    /\ UNCHANGED <<pollVars, watchVars, submitVars>>

\* cleanupAllChannels(): removeChannel on every key, then activeChannels.clear();
\* u gives what unsubscribe does on each handle
cleanupAllMapKeepsFailed(ac, u) ==
    [n \in Names |-> IF ac[n] # NoHandle /\ u[ac[n]] = "ok" THEN NoHandle ELSE ac[n]]
\* the map after cleanupAllChannels(): removeChannel on each key, then clear()
cleanupAllMap(ac, u) ==
    LET removed == [n \in Names |->
                      IF ac[n] # NoHandle THEN removeChannelMap(ac, n, u[ac[n]])[n]
                      ELSE ac[n]]
    IN  [n \in Names |-> IF removed[n] # NoHandle THEN NoHandle ELSE removed[n]]

cleanupAllChannels ==
    /\ LET tracked == {h \in Handles : \E n \in Names : activeChannels[n] = h} IN
       \E u \in [tracked -> UnsubscribeOutcomes] :
         /\ chanState' = [h \in Handles |->
                            IF h \in tracked THEN Unsubscribe(chanState, h, u[h])[h]
                            ELSE chanState[h]]
         /\ activeChannels' = cleanupAllMap(activeChannels, u)
         /\ lastOp' = OpRecord("cleanupAllChannels", "none", NoHandle, NoCall, FALSE,
                               IF \E h \in tracked : u[h] = "throw" THEN "throw"
                               ELSE IF tracked # {} THEN "ok" ELSE "none",
                               FALSE)
    /\ prevRet' = [n \in Names |-> NoCall]
    /\ opensSince' = [n \in Names |-> 0]
    /\ UNCHANGED <<nextHandle, chanName, chanTable>>
    /\ UNCHANGED <<pollVars, watchVars, submitVars>>

\* the status callback of live handle h is called with SUBSCRIBED: nothing is done
StatusSubscribed ==
    /\ \E h \in Handles :
         /\ IsLive(h)
         /\ lastOp' = OpRecord("SUBSCRIBED", chanName[h], NoHandle, NoCall, FALSE,
                               "none", FALSE)
    /\ UNCHANGED <<activeChannels, nextHandle, chanState, chanName, chanTable,
                   prevRet, opensSince>>
    /\ UNCHANGED <<pollVars, watchVars, submitVars>>

\* the status callback of live handle h is called with CHANNEL_ERROR:
\* this.removeChannel(channelName)
OnChannelErrorIgnored(channelName, u) ==
    /\ lastOp' = OpRecord("CHANNEL_ERROR", channelName, NoHandle, NoCall, FALSE,
                          "none", FALSE)
    /\ UNCHANGED <<activeChannels, chanState, prevRet, opensSince>>
\* else if (status === 'CHANNEL_ERROR') { this.removeChannel(channelName) }
OnChannelError(channelName, u) == RemoveOn("CHANNEL_ERROR", channelName, u)

StatusChannelError ==
    /\ \E h \in Handles, u \in UnsubscribeOutcomes :
         /\ IsLive(h)
         /\ OnChannelError(chanName[h], u)
    /\ UNCHANGED <<nextHandle, chanName, chanTable>>
    /\ UNCHANGED <<pollVars, watchVars, submitVars>>

\* the status callback of live handle h is called with TIMED_OUT:
\* this.removeChannel(channelName)
StatusTimedOut ==
    /\ \E h \in Handles, u \in UnsubscribeOutcomes :
         /\ IsLive(h)
         /\ RemoveOn("TIMED_OUT", chanName[h], u)
    /\ UNCHANGED <<nextHandle, chanName, chanTable>>
    /\ UNCHANGED <<pollVars, watchVars, submitVars>>

\* the status callback of handle h is called with CLOSED, once its subscription
\* is closed (after unsubscribe, or by the transport):
\* this.activeChannels.delete(channelName)
OnClosedRemoves(h, channelName) ==
    /\ \E u \in UnsubscribeOutcomes :
         /\ activeChannels' = removeChannelMap(activeChannels, channelName, u)
         /\ chanState' = IF activeChannels[channelName] \notin {NoHandle, h}
                         THEN [Unsubscribe(chanState, activeChannels[channelName], u)
                                 EXCEPT ![h] = "closed"]
                         ELSE [chanState EXCEPT ![h] = "closed"]
         /\ lastOp' = OpRecord("CLOSED", channelName, NoHandle, NoCall, FALSE,
                               IF activeChannels[channelName] # NoHandle THEN u ELSE "none",
                               FALSE)
    /\ prevRet' = [prevRet EXCEPT ![channelName] = NoCall]
    /\ opensSince' = [opensSince EXCEPT ![channelName] = 0]
\* else if (status === 'CLOSED') { this.activeChannels.delete(channelName) },
\* in the status callback of handle h, whose subscription is closed by then
OnClosed(h, channelName) ==
    /\ chanState' = [chanState EXCEPT ![h] = "closed"]
    /\ activeChannels' = [activeChannels EXCEPT ![channelName] = NoHandle]
    /\ prevRet' = [prevRet EXCEPT ![channelName] = NoCall]
    /\ opensSince' = [opensSince EXCEPT ![channelName] = 0]
    /\ lastOp' = OpRecord("CLOSED", channelName, NoHandle, NoCall, FALSE,
                          "none", FALSE)

StatusClosed ==
    /\ \E h \in Handles :
         /\ chanState[h] \in {"live", "torn"}
         /\ OnClosed(h, chanName[h])
    /\ UNCHANGED <<nextHandle, chanName, chanTable>>
    /\ UNCHANGED <<pollVars, watchVars, submitVars>>

(***************************************************************************)
(* The postgres_changes handler of a subscription: the transport calls it  *)
(* with a payload while the subscription is live.                          *)
(***************************************************************************)
\* typeof document === 'undefined' (no DOM), or document.hidden false or true
DocumentStates == {"undefined", "visible", "hidden"}

IsDiscardedNever(doc) == FALSE
\* if (typeof document !== 'undefined' && document.hidden) return
IsDiscarded(doc) == doc # "undefined" /\ doc = "hidden"

\* payload.new?.session_id and payload.old?.session_id: missing ("none"), the
\* id of a session of the list the channel was created with, or a foreign id
Payloads ==
    { [new |-> "none", old |-> "none"], [new |-> "s1", old |-> "none"],
      [new |-> "none", old |-> "s1"], [new |-> "s3", old |-> "s1"] }

\* payload.new?.session_id || payload.old?.session_id
EventSessionId(new, old) == IF new # "none" THEN new ELSE old

\* createChannel hands every payload on; createTranscriptionChannel only those
\* with sessionId && typeof sessionId === 'string' && sessionIds.includes(sessionId)
PassesFilter(table, new, old) ==
    \/ table = "recording_sessions"
    \/ /\ EventSessionId(new, old) # "none"
       /\ EventSessionId(new, old) \in SessionIds

\* what callback(payload) does
CallbackOutcomes == {"ok", "throw"}

HandlerRaisesOnThrow(cb) == cb = "throw"
\* try { callback(payload) } catch (error) { }: nothing leaves the handler
HandlerRaises(cb) == FALSE

EventRecord(name, doc, passes, invoked, cb) ==
    [OpRecord("event", name, NoHandle, NoCall, FALSE, "none",
              invoked /\ HandlerRaises(cb))
       EXCEPT !.doc = doc, !.passes = passes, !.invoked = invoked,
              !.cb = IF invoked THEN cb ELSE "none"]

\* the transport delivers an event to the handler of live handle h
DeliverEvent ==
    /\ \E h \in Handles, doc \in DocumentStates, payload \in Payloads,
          cb \in CallbackOutcomes :
         /\ IsLive(h)
         /\ LET passes == PassesFilter(chanTable[h], payload.new, payload.old) IN
            lastOp' = EventRecord(chanName[h], doc, passes,
                                  ~IsDiscarded(doc) /\ passes, cb)
    /\ UNCHANGED <<activeChannels, nextHandle, chanState, chanName, chanTable,
                   prevRet, opensSince>>
    /\ UNCHANGED <<pollVars, watchVars, submitVars>>

(***************************************************************************)
(* healthCheck. A channel name may end in '-' and the time of its creation *)
(* in milliseconds: n2 does, n1 ends in a word.                            *)
(***************************************************************************)
HourMs == 1000 * 60 * 60
HealthyBelow == 10
NameCreatedAt == HourMs

\* parts[parts.length - 1] of channelName.split('-'), as Number() reads it
TimestampOf(channelName) ==
    IF channelName = "n2" THEN [numeric |-> TRUE, value |-> NameCreatedAt]
    ELSE [numeric |-> FALSE, value |-> 0]

\* Date.now(): at the creation, one hour later, and a millisecond after that
Nows == {NameCreatedAt, NameCreatedAt + HourMs, NameCreatedAt + HourMs + 1}

\* timestamp && !isNaN(Number(timestamp)) and hours > 1
IsStale(channelName, now) ==
    /\ TimestampOf(channelName).numeric
    /\ now - TimestampOf(channelName).value > HourMs

\* Array.from(this.activeChannels.keys())
getActiveChannels == {n \in Names : activeChannels[n] # NoHandle}

healthCheckMapRemovesStale(ac, now) ==
    [n \in Names |-> IF ac[n] # NoHandle /\ IsStale(n, now) THEN NoHandle ELSE ac[n]]
\* the map after healthCheck(): the removeChannel of a stale name is
\* commented out, a warning is all there is
healthCheckMap(ac, now) == ac

healthCheck ==
    /\ \E now \in Nows :
         /\ activeChannels' = healthCheckMap(activeChannels, now)
         /\ lastOp' = [OpRecord("healthCheck", "none", NoHandle, NoCall, FALSE,
                                "none", FALSE)
                         EXCEPT !.healthy = Cardinality(getActiveChannels) < HealthyBelow,
                                !.count = Cardinality(getActiveChannels),
                                !.channels = getActiveChannels,
                                !.warned = {n \in getActiveChannels : IsStale(n, now)}]
    /\ UNCHANGED <<nextHandle, chanState, chanName, chanTable, prevRet, opensSince>>
    /\ UNCHANGED <<pollVars, watchVars, submitVars>>

\* no poll is running
PollNotCalled ==
    /\ maxAttempts = 0
    /\ attempt = 0
    /\ pc = "done"
    /\ sleepMs = 0
    /\ settled = Unsettled
    /\ fetches = 0
    /\ shortWaits = 0
    /\ baseWaits = 0
    /\ all403 = TRUE
    /\ allNonTerminal = TRUE
    /\ consecAuth = 0
    /\ last = [o |-> NoOutcome, at |-> 0, did |-> "none", ms |-> 0, authBefore |-> 0]

InitChan == ManagerConstructed /\ PollNotCalled /\ PageNotUsed /\ NoSubmission

NextChan ==
    \/ createChannel
    \/ createTranscriptionChannel
    \/ removeChannel
    \/ cleanupAllChannels
    \/ StatusSubscribed
    \/ StatusChannelError
    \/ StatusTimedOut
    \/ StatusClosed

SpecChan == InitChan /\ [][NextChan]_vars

\* the calls of the manager with the events the transport delivers to the
\* subscriptions they open; the status callbacks are those of SpecChan
NextChanEvents ==
    \/ createChannel
    \/ createTranscriptionChannel
    \/ removeChannel
    \/ cleanupAllChannels
    \/ DeliverEvent
    \/ healthCheck

SpecChanEvents == InitChan /\ [][NextChanEvents]_vars

(***************************************************************************)
(* Properties of subscriptionManager, checked under SpecChan.              *)
(***************************************************************************)
IsCreate(op) == op \in {"createChannel", "createTranscriptionChannel"}

\* C9 as stated: a create call on n that follows a create call on n with no
\* removal of n in between returns what the first call returned, and exactly one
\* transport subscription was opened for n.
C9_SecondCreateReturnsSame ==
    (IsCreate(lastOp.op) /\ lastOp.prev # NoCall) =>
        /\ lastOp.ret = lastOp.prev
        /\ opensSince[lastOp.name] = 1

\* C9 amended: a create call on n that follows a create call on n which returned
\* a handle (its transport open did not throw), with no removal of n from the map
\* in between (by removeChannel, cleanupAllChannels or a status callback),
\* returns that same handle and opens no transport subscription: exactly one was
\* opened for n.
C9_SecondCreateReturnsSameHandle ==
    (IsCreate(lastOp.op) /\ lastOp.prev \notin {NoCall, NoHandle}) =>
        /\ lastOp.ret = lastOp.prev
        /\ ~lastOp.opened
        /\ opensSince[lastOp.name] = 1
        /\ activeChannels[lastOp.name] = lastOp.ret

C9_Witness ==
    /\ lastOp.op = "createTranscriptionChannel"
    /\ lastOp.prev = 2
    /\ lastOp.ret = 2
    /\ chanTable[2] = "recording_sessions"
    /\ IsLive(2)

\* C10: each channel name has at most one live transport subscription.
C10_AtMostOneLivePerName ==
    \A n \in Names : Cardinality(LiveFor(n)) <= 1


\* attempt++ and the loop test: the next fetch, or the throw after the loop
NextIteration ==
    /\ attempt' = attempt + 1
    /\ sleepMs' = 0
    /\ IF LoopCond(attempt + 1, maxAttempts)
       THEN /\ pc' = "fetching"
            /\ fetches' = fetches + 1
            /\ settled' = settled
       ELSE /\ pc' = "done"
            /\ fetches' = fetches
            /\ settled' = Rejected(TimeoutMsg(maxAttempts))

\* the bookkeeping of the history when outcome o is handled with completion d
Observe(o, d) ==
    /\ last' = [o |-> o, at |-> attempt, did |-> d.kind, ms |-> d.ms,
                authBefore |-> consecAuth]
    /\ all403' = (all403 /\ IsAuth403(o))
    /\ allNonTerminal' = (allNonTerminal /\ IsNonTerminal(o))
    /\ consecAuth' = IF IsAuth403(o) THEN consecAuth + 1 ELSE 0
    /\ shortWaits' = shortWaits + (IF d.kind = "sleep" /\ d.ms = 1000 THEN 1 ELSE 0)
    /\ baseWaits' = baseWaits + (IF d.kind = "sleep" /\ d.ms = 3000 THEN 1 ELSE 0)

\* the fetch returns and the iteration returns the result
PollResolve ==
    /\ pc = "fetching"
    /\ \E o \in FetchOutcomes :
         LET d == Iteration(o, attempt, maxAttempts) IN
         /\ d.kind = "return"
         /\ Observe(o, d)
         /\ pc' = "done"
         /\ settled' = Resolved(d.val)
    /\ UNCHANGED <<maxAttempts, attempt, sleepMs, fetches>>
    /\ UNCHANGED <<chanVars, watchVars, submitVars>>

\* the fetch returns and the iteration throws out of the function
PollReject ==
    /\ pc = "fetching"
    /\ \E o \in FetchOutcomes :
         LET d == Iteration(o, attempt, maxAttempts) IN
         /\ d.kind = "throw"
         /\ Observe(o, d)
         /\ pc' = "done"
         /\ settled' = Rejected(d.msg)
    /\ UNCHANGED <<maxAttempts, attempt, sleepMs, fetches>>
    /\ UNCHANGED <<chanVars, watchVars, submitVars>>

\* the fetch returns and the iteration starts a sleep
PollSleep ==
    /\ pc = "fetching"
    /\ \E o \in FetchOutcomes :
         LET d == Iteration(o, attempt, maxAttempts) IN
         /\ d.kind = "sleep"
         /\ Observe(o, d)
         /\ pc' = "sleeping"
         /\ sleepMs' = d.ms
    /\ UNCHANGED <<maxAttempts, attempt, settled, fetches>>
    /\ UNCHANGED <<chanVars, watchVars, submitVars>>

\* the fetch returns and the iteration ends without a sleep
PollContinue ==
    /\ pc = "fetching"
    /\ \E o \in FetchOutcomes :
         LET d == Iteration(o, attempt, maxAttempts) IN
         /\ d.kind = "next"
         /\ Observe(o, d)
         /\ NextIteration
    /\ UNCHANGED <<maxAttempts>>
    /\ UNCHANGED <<chanVars, watchVars, submitVars>>

\* the setTimeout of a sleep fires: continue, or the end of the catch block
PollTimerFires ==
    /\ pc = "sleeping"
    /\ NextIteration
    /\ UNCHANGED <<maxAttempts, shortWaits, baseWaits, all403, allNonTerminal,
                   consecAuth, last>>
    /\ UNCHANGED <<chanVars, watchVars, submitVars>>

\* pollV2TaskStatus(taskId, maxAttempts) is called: the first fetch is issued
InitPoll ==
    /\ ManagerConstructed
    /\ PageNotUsed
    /\ NoSubmission
    /\ maxAttempts \in 1..MaxAttemptsBound
    /\ attempt = 0
    /\ pc = "fetching"
    /\ sleepMs = 0
    /\ settled = Unsettled
    /\ fetches = 1
    /\ shortWaits = 0
    /\ baseWaits = 0
    /\ all403 = TRUE
    /\ allNonTerminal = TRUE
    /\ consecAuth = 0
    /\ last = [o |-> NoOutcome, at |-> 0, did |-> "none", ms |-> 0, authBefore |-> 0]

NextPoll ==
    \/ PollResolve
    \/ PollReject
    \/ PollSleep
    \/ PollContinue
    \/ PollTimerFires

SpecPoll == InitPoll /\ [][NextPoll]_vars

TypeOKPoll ==
    /\ attempt \in 0..maxAttempts
    /\ pc \in {"fetching", "sleeping", "done"}
    /\ fetches \in 1..maxAttempts

(***************************************************************************)
(* Properties of pollV2TaskStatus, checked under SpecPoll.                 *)
(***************************************************************************)
Handled(o) == last.o = o /\ last.did # "none"
\* no fetch was issued after the one whose outcome was handled last
NoFetchAfterLast == fetches = last.at + 1
\* the fetch after the one handled last is in flight
NextFetchInFlight == pc = "fetching" /\ fetches = last.at + 2

C2_CancelledRejectsAtOnce ==
    (last.did # "none" /\ last.o.type = "json" /\ last.o.status = "cancelled") =>
        /\ pc = "done"
        /\ settled = Rejected(CancelledMsg)
        /\ \A e \in BackendErrors : CancelledMsg # FailureMsg(JsonOutcome("failed", NoResult, e))
        /\ last.did = "throw"
        /\ NoFetchAfterLast

\* C3: a fetch that returns status completed with a result payload resolves the
\* poll on that attempt with exactly that payload, with no fetch and no sleep
\* after it.
C3_CompletedResolvesWithResult ==
    (last.did # "none" /\ last.o.type = "json" /\ last.o.status = "completed"
       /\ last.o.result # NoResult) =>
        /\ pc = "done"
        /\ settled = Resolved(last.o.result)
        /\ last.did = "return"
        /\ sleepMs = 0
        /\ NoFetchAfterLast

C3_Witness ==
    /\ settled = Resolved("r2")
    /\ last.o = JsonOutcome("completed", "r2", NoMsg)
    /\ last.at = 2

\* C4: when every fetch returns pending or processing, the poll with
\* maxAttempts = N rejects with the timeout error that names N after exactly N
\* fetches, and never issues more than N fetches on the way.
C4_NonTerminalTimesOut ==
    allNonTerminal =>
        /\ fetches <= maxAttempts
        /\ settled.kind # "resolved"
        /\ (pc = "done" =>
              /\ settled = Rejected(TimeoutMsg(maxAttempts))
              /\ fetches = maxAttempts)

C4_Witness ==
    /\ allNonTerminal
    /\ pc = "done"
    /\ maxAttempts = 5
    /\ fetches = 5
    /\ settled = Rejected(<<"V2", "poll", "timeout", "5", "attempts">>)

\* the rejection is the authorization failure built from an error message
IsAuthError(m) == \E e \in {HttpErrorMsg("403")} \cup BackendErrors : m = AuthFailedMsg(e)

\* C5: when the first 6 fetches all fail with HTTP 403 (maxAttempts >= 6), the
\* poll rejects with the authorization error on the 6th fetch, after exactly 6
\* fetches and exactly 5 sleeps, each of 1000 ms and none of 3000 ms.
C5_SixAuthErrors ==
    (all403 /\ last.did # "none" /\ last.at = 5) =>
        /\ pc = "done"
        /\ settled = Rejected(AuthFailedMsg(HttpErrorMsg("403")))
        /\ fetches = 6
        /\ shortWaits = 5
        /\ baseWaits = 0

C5_Witness ==
    /\ all403
    /\ last.did = "throw"
    /\ last.at = 5
    /\ maxAttempts > 6
    /\ shortWaits = 5

\* C6: the authorization errors' budget counts consecutive authorization errors,
\* whatever the attempt index: a fetch failing with HTTP 403 that fewer than 5
\* consecutive 403 failures immediately precede is retried after a 1000 ms sleep,
\* and the poll rejects with the authorization error only after 5 such retries.
C6_AuthBudgetIsConsecutive ==
    (last.did # "none" /\ IsAuth403(last.o)) =>
        /\ (last.authBefore < 5 => last.did = "sleep" /\ last.ms = 1000)
        /\ (last.did = "throw" => last.authBefore >= 5)

nonAuthFetchError(o) == o = NetOutcome \/ o = HttpOutcome("500")

\* C7: a fetch failing with a non-authorization error at attempt index i is
\* rethrown at once, the same error, with no fetch and no sleep after it, when
\* i >= maxAttempts - 3; otherwise the poll sleeps 3000 ms and fetches again.
C7_PlainErrorRetryOrRethrow ==
    (last.did # "none" /\ nonAuthFetchError(last.o)) =>
        IF last.at >= maxAttempts - 3
        THEN /\ pc = "done"
             /\ settled = Rejected(IF last.o = NetOutcome THEN NetworkErrorMsg
                                   ELSE HttpErrorMsg("500"))
             /\ last.did = "throw"
             /\ NoFetchAfterLast
        ELSE /\ last.did = "sleep"
             /\ last.ms = 3000
             /\ \/ pc = "sleeping" /\ sleepMs = 3000 /\ NoFetchAfterLast
                \/ NextFetchInFlight

C7_Witness ==
    /\ last.o = HttpOutcome("500")
    /\ last.at = maxAttempts - 4
    /\ last.at > 0
    /\ NextFetchInFlight
    /\ baseWaits > 0

unknownStatus(o) ==
    o.type = "json" /\ o.status \notin {"pending", "processing", "completed", "failed", "cancelled"}

\* C8 as stated: a fetch returning an unrecognized status never makes the poll
\* reject or resolve on that attempt; it uses up one attempt and the next fetch
\* is issued without any sleep.
C8_UnknownNeverSettles ==
    (last.did # "none" /\ unknownStatus(last.o)) =>
        /\ pc # "done"
        /\ settled = Unsettled
        /\ last.did = "next"
        /\ NextFetchInFlight

\* C8 amended: a fetch returning an unrecognized status at attempt index i never
\* resolves the poll and starts no sleep; when i < maxAttempts - 1 the next fetch
\* is issued at once, and when i = maxAttempts - 1 (no attempt is left) the poll
\* rejects at once with the timeout error naming maxAttempts.
C8_UnknownContinuesOrTimesOut ==
    (last.did # "none" /\ unknownStatus(last.o)) =>
        /\ last.did = "next"
        /\ sleepMs = 0
        /\ IF last.at < maxAttempts - 1
           THEN NextFetchInFlight /\ settled = Unsettled
           ELSE /\ pc = "done"
                /\ settled = Rejected(TimeoutMsg(maxAttempts))
                /\ NoFetchAfterLast

C8_Witness ==
    /\ unknownStatus(last.o)
    /\ last.did = "next"
    /\ last.at = 1
    /\ NextFetchInFlight
    /\ shortWaits + baseWaits = 1


\* ---------------------------------------------------------------------------
\* Claims about removal and the status callbacks (SpecChan)
\* ---------------------------------------------------------------------------

IsErrorStatus(op) == op \in {"CHANNEL_ERROR", "TIMED_OUT"}

\* C11: after removeChannel(n) has returned, hasChannel(n) is false, whatever
\* the map held before and also when channel.unsubscribe() threw, and
\* removeChannel has let no exception out.
C11_RemoveLeavesNoEntry ==
    lastOp.op = "removeChannel" =>
        /\ ~hasChannel(lastOp.name)
        /\ ~lastOp.raised

\* removeChannel has returned for a tracked name whose unsubscribe threw
C11_Witness ==
    /\ lastOp.op = "removeChannel"
    /\ lastOp.unsub = "throw"
    /\ ~hasChannel(lastOp.name)

\* C12: after cleanupAllChannels() the map is empty, getActiveChannelCount()
\* is 0, whatever it held before and whichever teardowns threw.
C12_CleanupEmptiesMap ==
    lastOp.op = "cleanupAllChannels" => getActiveChannelCount = 0

\* cleanupAllChannels has returned after a teardown threw
C12_Witness ==
    /\ lastOp.op = "cleanupAllChannels"
    /\ lastOp.unsub = "throw"
    /\ getActiveChannelCount = 0

\* C13: a step in which the status callback of a handle created under n
\* reports CHANNEL_ERROR or TIMED_OUT leaves no entry for n and opens no
\* subscription; the createChannel(n) that follows it does not return a
\* tracked handle but goes to the transport for a new subscription (which it
\* tracks and returns, or which throws and gives null).
C13_Step ==
    /\ IsErrorStatus(lastOp'.op) =>
          /\ activeChannels'[lastOp'.name] = NoHandle
          /\ nextHandle' = nextHandle
    /\ (IsErrorStatus(lastOp.op) /\ IsCreate(lastOp'.op) /\ lastOp'.name = lastOp.name) =>
          \/ /\ lastOp'.opened
             /\ nextHandle' = nextHandle + 1
             /\ lastOp'.ret = nextHandle
             /\ activeChannels'[lastOp'.name] = nextHandle
          \/ /\ lastOp'.ret = NoHandle
             /\ ~lastOp'.opened
C14_Step ==
    lastOp'.op = "CLOSED" =>
        /\ activeChannels' = [activeChannels EXCEPT ![lastOp'.name] = NoHandle]
        /\ lastOp'.unsub = "none"
        /\ nextHandle' = nextHandle
        /\ \A h \in Handles : chanState'[h] = "torn" => chanState[h] = "torn"
C14_ClosedOnlyDeletesEntry == [][C14_Step]_vars

\* CLOSED has been reported for one name while another name is tracked
C14_Witness ==
    /\ lastOp.op = "CLOSED"
    /\ ~hasChannel(lastOp.name)
    /\ \E m \in Names : m # lastOp.name /\ hasChannel(m)


(***************************************************************************)
(* HomePage (web/app/page.tsx): the retranscription watch.                 *)
(*                                                                         *)
(* Each event handler, timer callback and resumption after an await is one *)
(* atomic step. After a step that changed state React renders and runs the *)
(* effects before the next event is handled: StatusWatchEffect is that run *)
(* (the two ref effects and the status-watch effect, in their order in the *)
(* component), and it is the only step enabled while effectPending holds.  *)
(* The ref effects copy sessions and isRetranscribing at every commit, so  *)
(* a callback that runs between two events reads the state itself.         *)
(* Date.now() - startTs is kept as what the code asks of it: a chain is    *)
(* "armed" while it is at most 4000 ms, "overdue" after that.              *)
(***************************************************************************)

\* useEffect(() => { sessionsRef.current = sessions }, [sessions])
sessionsRef == sessions
\* useEffect(() => { isRetranscribingRef.current = isRetranscribing }, [isRetranscribing])
isRetranscribingRef == isRetranscribing

\* the signature { id, contentLength, segmentsLength } of a first transcription
Signature(t) ==
    [id |-> t.id,
     contentLength |-> t.contentLength,
     segmentsLength |-> IF t.segments.kind \in {"array", "string"}
                        THEN t.segments.len ELSE 0]

SignatureDiffersById(cur, base) ==
    base # NoBaseline /\ cur.id # base.id
\* retranscribeBaseline && (id !== || contentLength !== || segmentsLength !==)
SignatureDiffers(cur, base) ==
    /\ base # NoBaseline
    /\ \/ cur.id # base.id
       \/ cur.contentLength # base.contentLength
       \/ cur.segmentsLength # base.segmentsLength

\* the condition of the full-screen processing overlay, which takes every click
OverlayShown ==
    \/ selectedSessionId # NoSelection /\ sessions[selectedSessionId].status = "processing"
    \/ isRetranscribing /\ ~forceHideRetranscribeOverlay

\* the three setters of the watch; effects run again when a dependency
\* changed. how names the code that ends the job, should this end one
SetWatch(r, h, b, how) ==
    /\ isRetranscribing' = r
    /\ hasSeenProcessing' = h
    /\ retranscribeBaseline' = b
    /\ lastEnd' = IF r THEN "none"
                  ELSE IF isRetranscribing THEN how ELSE lastEnd
    /\ effectPending' = (<<r, h, b>> # <<isRetranscribing, hasSeenProcessing,
                                          retranscribeBaseline>>)

MarksProcessingWhenIdle(row) == row.status = "processing" /\ ~hasSeenProcessing
\* if (status === 'processing' && isRetranscribing && !hasSeenProcessing)
MarksProcessing(row) ==
    row.status = "processing" /\ isRetranscribing /\ ~hasSeenProcessing

ViaIntermediateOnDiff(row) ==
    /\ isRetranscribing /\ hasSeenProcessing /\ row.status = "completed"
    /\ Signature(row.transcription) # retranscribeBaseline
\* if (isRetranscribing && hasSeenProcessing && status === 'completed')
ViaIntermediate(row) ==
    isRetranscribing /\ hasSeenProcessing /\ row.status = "completed"

\* if (isRetranscribing && status === 'completed') and the signature differs
ViaSignatureDiff(row) ==
    /\ isRetranscribing
    /\ row.status = "completed"
    /\ SignatureDiffers(Signature(row.transcription), retranscribeBaseline)

IsFailedOnly(row) == row.status = "failed"
\* if (status !== 'completed' && status !== 'processing')
IsNonProgress(row) == row.status \notin {"completed", "processing"}

\* the baseline after the effect: only the signature path and the reset clear it
BaselineAfterEffect(row) ==
    IF ViaSignatureDiff(row) \/ IsNonProgress(row) THEN NoBaseline
    ELSE retranscribeBaseline

\* one run of the effects of a committed render
StatusWatchEffect ==
    /\ effectPending
    /\ IF selectedSessionId = NoSelection \/ ~InList(sessions[selectedSessionId])
       THEN /\ UNCHANGED <<isRetranscribing, hasSeenProcessing, retranscribeBaseline,
                           lastEnd, successSignals>>
            /\ effectPending' = FALSE
       ELSE LET row == sessions[selectedSessionId]
                ended == ViaIntermediate(row) \/ ViaSignatureDiff(row) \/ IsNonProgress(row)
            IN  /\ SetWatch(IF ended THEN FALSE ELSE isRetranscribing,
                            IF ended THEN FALSE
                            ELSE IF MarksProcessing(row) THEN TRUE ELSE hasSeenProcessing,
                            BaselineAfterEffect(row),
                            IF ViaIntermediate(row) /\ ViaSignatureDiff(row) THEN "both"
                            ELSE IF ViaIntermediate(row) THEN "intermediate"
                            ELSE IF ViaSignatureDiff(row) THEN "signature"
                            ELSE "reset")
                /\ successSignals' = successSignals
                                      + (IF ViaIntermediate(row) THEN 1 ELSE 0)
                                      + (IF ViaSignatureDiff(row) THEN 1 ELSE 0)
    /\ UNCHANGED <<sessions, selectedSessionId, forceHideRetranscribeOverlay,
                   nextJob, jobPc, jobSession>>
    /\ UNCHANGED <<pollVars, chanVars, submitVars>>

\* useRecordingSessions() hands the page a new list: a push event or a fetch
\* replaced the row of one session (by any row: events are lost, repeated
\* and reordered)
Refresh ==
    /\ ~effectPending
    /\ \E s \in SessionIds : \E row \in SessionRows(s) :
         sessions' = [sessions EXCEPT ![s] = row]
    /\ effectPending' = TRUE
    /\ UNCHANGED <<selectedSessionId, isRetranscribing, hasSeenProcessing,
                   retranscribeBaseline, forceHideRetranscribeOverlay,
                   nextJob, jobPc, jobSession, successSignals, lastEnd>>
    /\ UNCHANGED <<pollVars, chanVars, submitVars>>

\* handleSessionSelect -> processSessionData: setSelectedSessionId(id)
SelectSession ==
    /\ ~effectPending
    /\ ~OverlayShown
    /\ \E s \in SessionIds :
         /\ s # selectedSessionId
         /\ selectedSessionId' = s
    /\ effectPending' = TRUE
    /\ UNCHANGED <<sessions, isRetranscribing, hasSeenProcessing,
                   retranscribeBaseline, forceHideRetranscribeOverlay,
                   nextJob, jobPc, jobSession, successSignals, lastEnd>>
    /\ UNCHANGED <<pollVars, chanVars, submitVars>>

SubmissionAcceptedAnyStatus ==
    /\ selectedSessionId # NoSelection
    /\ InList(sessions[selectedSessionId])
\* the three early returns of handleRetranscribe do not apply
SubmissionAccepted ==
    /\ selectedSessionId # NoSelection
    /\ InList(sessions[selectedSessionId])
    /\ sessions[selectedSessionId].status = "completed"

BaselineKeptIfSet(row) ==
    IF retranscribeBaseline # NoBaseline THEN retranscribeBaseline
    ELSE Signature(row.transcription)
\* the baseline handleRetranscribe sets: the signature of transcriptions[0]
\* of the selected session, { id: undefined, 0, 0 } when it has none
BaselineAtSubmission(row) == Signature(row.transcription)

\* handleRetranscribe up to its first await
handleRetranscribe ==
    /\ ~effectPending
    /\ ~OverlayShown
    /\ IF SubmissionAccepted
       THEN /\ nextJob <= MaxJobs
            /\ SetWatch(TRUE, FALSE, BaselineAtSubmission(sessions[selectedSessionId]),
                        "none")
            /\ jobPc' = [jobPc EXCEPT ![nextJob] = "delay"]
            /\ jobSession' = [jobSession EXCEPT ![nextJob] = selectedSessionId]
            /\ nextJob' = nextJob + 1
            /\ successSignals' = 0
       ELSE UNCHANGED <<isRetranscribing, hasSeenProcessing, retranscribeBaseline,
                        effectPending, nextJob, jobPc, jobSession, successSignals,
                        lastEnd>>
    /\ UNCHANGED <<sessions, selectedSessionId, forceHideRetranscribeOverlay>>
    /\ UNCHANGED <<pollVars, chanVars, submitVars>>

CatchBlockKeepsBaseline(j) ==
    /\ SetWatch(FALSE, FALSE, retranscribeBaseline, "catch")
    /\ jobPc' = [jobPc EXCEPT ![j] = "done"]
    /\ UNCHANGED forceHideRetranscribeOverlay
\* the catch block of handleRetranscribe
CatchBlockOfJob(j) ==
    /\ SetWatch(FALSE, FALSE, NoBaseline, "catch")
    /\ jobPc' = [jobPc EXCEPT ![j] = "done"]
    /\ UNCHANGED forceHideRetranscribeOverlay

\* after the 300 ms delay: throw without an apiClient, else send the request
DelayElapsed ==
    /\ ~effectPending
    /\ \E j \in Jobs, hasClient \in BOOLEAN :
         /\ jobPc[j] = "delay"
         /\ IF hasClient
            THEN /\ jobPc' = [jobPc EXCEPT ![j] = "calling"]
                 /\ UNCHANGED <<isRetranscribing, hasSeenProcessing, retranscribeBaseline,
                                effectPending, forceHideRetranscribeOverlay, lastEnd>>
            ELSE CatchBlockOfJob(j)
    /\ UNCHANGED <<sessions, selectedSessionId, nextJob, jobSession, successSignals>>
    /\ UNCHANGED <<pollVars, chanVars, submitVars>>

\* apiClient.retranscribeSession(id) resolves; it never rejects
RetranscribeReturns ==
    /\ ~effectPending
    /\ \E j \in Jobs, success \in BOOLEAN :
         /\ jobPc[j] = "calling"
         /\ IF success
            THEN /\ jobPc' = [jobPc EXCEPT ![j] = "fetching"]
                 /\ UNCHANGED <<isRetranscribing, hasSeenProcessing, retranscribeBaseline,
                                effectPending, forceHideRetranscribeOverlay, lastEnd>>
            ELSE CatchBlockOfJob(j)
    /\ UNCHANGED <<sessions, selectedSessionId, nextJob, jobSession, successSignals>>
    /\ UNCHANGED <<pollVars, chanVars, submitVars>>

\* await fetchSessions() settles: setTimeout(fallbackCheck, 400), or the catch
FetchSessionsReturns ==
    /\ ~effectPending
    /\ \E j \in Jobs, ok \in BOOLEAN :
         /\ jobPc[j] = "fetching"
         /\ IF ok
            THEN /\ jobPc' = [jobPc EXCEPT ![j] = "armed"]
                 /\ UNCHANGED <<isRetranscribing, hasSeenProcessing, retranscribeBaseline,
                                effectPending, forceHideRetranscribeOverlay, lastEnd>>
            ELSE CatchBlockOfJob(j)
    /\ UNCHANGED <<sessions, selectedSessionId, nextJob, jobSession, successSignals>>
    /\ UNCHANGED <<pollVars, chanVars, submitVars>>

\* more than 4000 ms have passed since startTs of a chain
ClockPasses ==
    /\ ~effectPending
    /\ \E j \in Jobs :
         /\ jobPc[j] = "armed"
         /\ jobPc' = [jobPc EXCEPT ![j] = "overdue"]
    /\ UNCHANGED <<sessions, selectedSessionId, isRetranscribing, hasSeenProcessing,
                   retranscribeBaseline, forceHideRetranscribeOverlay,
                   effectPending, nextJob, jobSession, successSignals, lastEnd>>
    /\ UNCHANGED <<pollVars, chanVars, submitVars>>

DeadlineNever(p) == FALSE
\* if (Date.now() - startTs > 4000)
DeadlineExceeded(p) == p = "overdue"

\* s && s.status === 'completed', s the job's session in sessionsRef.current
FallbackSeesCompleted(j) ==
    InList(sessionsRef[jobSession[j]]) /\ sessionsRef[jobSession[j]].status = "completed"

\* a scheduled fallbackCheck of job j runs
FallbackCheck ==
    /\ ~effectPending
    /\ \E j \in Jobs :
         /\ jobPc[j] \in {"armed", "overdue"}
         /\ IF ~isRetranscribingRef
            THEN /\ jobPc' = [jobPc EXCEPT ![j] = "done"]
                 /\ UNCHANGED <<isRetranscribing, hasSeenProcessing, retranscribeBaseline,
                                effectPending, forceHideRetranscribeOverlay, lastEnd>>
            ELSE IF FallbackSeesCompleted(j) \/ DeadlineExceeded(jobPc[j])
            THEN /\ SetWatch(FALSE, FALSE, NoBaseline,
                             IF FallbackSeesCompleted(j) THEN "fallbackCompleted"
                             ELSE "fallbackTimeout")
                 /\ forceHideRetranscribeOverlay' = TRUE
                 /\ jobPc' = [jobPc EXCEPT ![j] = "done"]
            ELSE \* setTimeout(fallbackCheck, 300)
                 UNCHANGED <<isRetranscribing, hasSeenProcessing, retranscribeBaseline,
                             effectPending, forceHideRetranscribeOverlay, jobPc, lastEnd>>
    /\ UNCHANGED <<sessions, selectedSessionId, nextJob, jobSession, successSignals>>
    /\ UNCHANGED <<pollVars, chanVars, submitVars>>

InitWatch == ManagerConstructed /\ PollNotCalled /\ PageMounted /\ NoSubmission

NextWatch ==
    \/ Refresh
    \/ SelectSession
    \/ handleRetranscribe
    \/ DelayElapsed
    \/ RetranscribeReturns
    \/ FetchSessionsReturns
    \/ ClockPasses
    \/ FallbackCheck
    \/ StatusWatchEffect

SpecWatch == InitWatch /\ [][NextWatch]_vars

TypeOKWatch ==
    /\ selectedSessionId \in SessionIds \cup {NoSelection}
    /\ isRetranscribing \in BOOLEAN
    /\ hasSeenProcessing \in BOOLEAN
    /\ forceHideRetranscribeOverlay \in BOOLEAN
    /\ nextJob \in 1..(MaxJobs + 1)
    /\ successSignals \in 0..2
    /\ \A j \in Jobs : jobPc[j] \in {"unused", "delay", "calling", "fetching",
                                        "armed", "overdue", "done"}

\* the scheduling the claims about termination rely on: a pending network
\* call returns, a scheduled timer fires and the clock moves on however
\* many refreshes arrive in between (strong fairness: each of them is
\* disabled while a render waits for its effects), and React runs the
\* effects of a committed render
JobStep ==
    \/ DelayElapsed
    \/ RetranscribeReturns
    \/ FetchSessionsReturns
    \/ ClockPasses
    \/ FallbackCheck

SpecWatchFair ==
    /\ SpecWatch
    /\ WF_vars(StatusWatchEffect)
    /\ SF_vars(JobStep)

\* ---------------------------------------------------------------------------
\* Claims about the retranscription watch (SpecWatch, SpecWatchFair)
\* ---------------------------------------------------------------------------

\* the row the status-watch effect reads: that of the selected session
WatchedRow == sessions[selectedSessionId]

\* this step is a run of the effects in which a job is in flight and the
\* effect finds the selected session
EffectRunInFlight ==
    /\ effectPending /\ isRetranscribing /\ selectedSessionId # NoSelection
    /\ InList(sessions[selectedSessionId])

\* C15: an effect run while a job is in flight, in which the watched row has
\* status completed and a signature that differs from the baseline in at
\* least one of id, contentLength, segmentsLength, ends the job with a
\* success signal, also when hasSeenProcessing is false.
C15_Step ==
    (/\ EffectRunInFlight
     /\ WatchedRow.status = "completed"
     /\ Signature(WatchedRow.transcription) # retranscribeBaseline)
    => /\ ~isRetranscribing'
       /\ successSignals' > successSignals
C15_SignatureDiffCompletes == [][C15_Step]_vars

\* a job has ended through the signature path alone: no processing was seen
C15_Witness ==
    /\ lastEnd = "signature"
    /\ ~isRetranscribing
    /\ successSignals = 1

\* C16: while a job is in flight, an effect run that sees status processing
\* sets hasSeenProcessing, which stays set as long as the job is in flight,
\* and an effect run that then sees status completed ends the job with a
\* success signal, the signature equal to the baseline or not.
C16_Step ==
    /\ (EffectRunInFlight /\ WatchedRow.status = "processing")
          => isRetranscribing' /\ hasSeenProcessing'
    /\ (isRetranscribing /\ hasSeenProcessing /\ isRetranscribing')
          => hasSeenProcessing'
    /\ (EffectRunInFlight /\ hasSeenProcessing /\ WatchedRow.status = "completed")
          => /\ ~isRetranscribing'
             /\ successSignals' > successSignals
C16_ProcessingThenCompleted == [][C16_Step]_vars

\* a job has ended through the intermediate-state path with the signature
\* of the watched row equal to the baseline
C16_Witness ==
    /\ lastEnd = "intermediate"
    /\ ~isRetranscribing
    /\ successSignals = 1
    /\ selectedSessionId # NoSelection
    /\ Signature(WatchedRow.transcription) = retranscribeBaseline

\* C17: an effect run in which the watched row has a status other than
\* processing and completed leaves isRetranscribing false, hasSeenProcessing
\* false and the baseline null, and emits no success signal, whatever the
\* baseline was.
C17_Step ==
    (/\ effectPending
     /\ selectedSessionId # NoSelection
     /\ InList(WatchedRow)
     /\ WatchedRow.status \notin {"processing", "completed"})
    => /\ ~isRetranscribing'
       /\ ~hasSeenProcessing'
       /\ retranscribeBaseline' = NoBaseline
       /\ successSignals' = successSignals
C17_NonProgressResets == [][C17_Step]_vars

\* a job has been reset by a failed row, with no success signal
C17_Witness ==
    /\ lastEnd = "reset"
    /\ ~isRetranscribing /\ ~hasSeenProcessing
    /\ retranscribeBaseline = NoBaseline
    /\ successSignals = 0
    /\ selectedSessionId # NoSelection
    /\ WatchedRow.status = "failed"

\* C18: under SpecWatchFair, whenever isRetranscribing is true it is false
\* at some later point, with or without refreshes.
C18_InFlightEnds == isRetranscribing ~> ~isRetranscribing

\* the 4000 ms limit of a fallback chain has ended a job
C18_Witness ==
    /\ lastEnd = "fallbackTimeout"
    /\ ~isRetranscribing
    /\ forceHideRetranscribeOverlay

\* C19: at most one success signal is emitted between one submission and the
\* next.
C19_AtMostOneSuccessSignal == successSignals <= 1

\* C20: in every state, isRetranscribing = false implies that the baseline is
\* null and hasSeenProcessing is false.
C20_IdleHasNoWatchSession ==
    ~isRetranscribing => (retranscribeBaseline = NoBaseline /\ ~hasSeenProcessing)

\* C21: a step in which handleRetranscribe accepts a submission leaves
\* isRetranscribing true, hasSeenProcessing false and the baseline equal to
\* the id, content length and segments length of the first transcription
\* the selected session has at that moment, { undefined, 0, 0 } if it has
\* none, whatever the three held before.
C21_Step ==
    (nextJob' = nextJob + 1) =>
        LET t == sessions[selectedSessionId].transcription IN
        /\ isRetranscribing'
        /\ ~hasSeenProcessing'
        /\ retranscribeBaseline'.id = t.id
        /\ retranscribeBaseline'.contentLength = t.contentLength
        /\ retranscribeBaseline'.segmentsLength =
              (IF t.segments.kind \in {"array", "string"} THEN t.segments.len ELSE 0)
        /\ (t = NoTranscription) =>
              retranscribeBaseline' = [id |-> "undefined", contentLength |-> 0,
                                       segmentsLength |-> 0]
C21_SubmissionStartsFresh == [][C21_Step]_vars

\* a second submission has just been accepted, on a session that has a first
\* transcription
C21_Witness ==
    /\ nextJob = 3
    /\ jobPc[2] = "delay"
    /\ isRetranscribing /\ ~hasSeenProcessing
    /\ retranscribeBaseline.id = "t1"
    /\ retranscribeBaseline = Signature(sessions[jobSession[2]].transcription)

\* C26: whenever isRetranscribing is true the processing overlay is shown,
\* for the first job and for every later one.
C26_OverlayWhileInFlight == isRetranscribing => OverlayShown

\* the record a step that ends the job looked at: the job's session for a
\* fallbackCheck, the selected session for the status-watch effect
ObservedRow ==
    IF lastEnd' \in {"fallbackCompleted", "fallbackTimeout"}
    THEN sessions[jobSession[CHOOSE j \in Jobs : jobPc'[j] # jobPc[j]]]
    ELSE sessions[selectedSessionId]

\* the record is as it was when the job was submitted
StillPreSubmission(row) ==
    /\ row.status = "completed"
    /\ Signature(row.transcription) = retranscribeBaseline
    /\ ~hasSeenProcessing

\* C30: no step, of the status-watch effect or of fallbackCheck, ends the job
\* as completed while the record it looks at is completed with the baseline
\* signature and no processing status was seen since the submission.
C30_Step ==
    (/\ isRetranscribing /\ ~isRetranscribing'
     /\ lastEnd' \in {"intermediate", "signature", "both", "fallbackCompleted"})
    => ~StillPreSubmission(ObservedRow)
C30_NoSuccessOnPreSubmissionState == [][C30_Step]_vars

(***************************************************************************)
(* The signature comparison of the status-watch effect over bounded        *)
(* inputs: a job is in flight on the selected session s1, a refresh has    *)
(* just reported s1 completed with any first transcription, the baseline   *)
(* is any signature, and the effect runs.                                  *)
(***************************************************************************)
TranscriptionIds == {"undefined", "t1", "t2"}
Lengths == 0..MaxLen

\* transcriptions[0] as the effect reads it: t?.id, t?.content, t?.segments
AnyTranscription ==
    { [id |-> i, contentLength |-> c, segments |-> g] :
        i \in TranscriptionIds, c \in Lengths,
        g \in { [kind |-> "absent", len |-> 0], [kind |-> "null", len |-> 0] }
             \cup { [kind |-> k, len |-> n] : k \in {"array", "string"}, n \in Lengths } }

\* the values setRetranscribeBaseline is given by handleRetranscribe
AnySignature ==
    [id : TranscriptionIds, contentLength : Lengths, segmentsLength : Lengths]

InitSignature ==
    /\ ManagerConstructed /\ PollNotCalled /\ NoSubmission
    /\ \E t \in AnyTranscription :
         sessions = [s \in SessionIds |->
                       IF s = "s1" THEN [status |-> "completed", transcription |-> t]
                       ELSE [status |-> "created",
                             transcription |-> CHOOSE u \in TranscriptionsOf(s) : TRUE]]
    /\ selectedSessionId = "s1"
    /\ isRetranscribing = TRUE
    /\ hasSeenProcessing \in BOOLEAN
    /\ retranscribeBaseline \in AnySignature
    /\ forceHideRetranscribeOverlay = FALSE
    /\ effectPending = TRUE
    /\ nextJob = 2
    /\ jobPc = [j \in Jobs |-> IF j = 1 THEN "armed" ELSE "unused"]
    /\ jobSession = [j \in Jobs |-> IF j = 1 THEN "s1" ELSE NoSelection]
    /\ successSignals = 0
    /\ lastEnd = "none"

NextSignature == StatusWatchEffect

SpecSignature == InitSignature /\ [][NextSignature]_vars

\* C27: when the effect runs with a job in flight and the selected session
\* completed, the signature path fires exactly when the current signature
\* and the baseline differ in id, in contentLength or in segmentsLength.
C27_Step ==
    (effectPending /\ isRetranscribing /\ WatchedRow.status = "completed") =>
        LET cur == Signature(WatchedRow.transcription)
            base == retranscribeBaseline
        IN  (lastEnd' \in {"signature", "both"})
              <=> (\/ cur.id # base.id
                   \/ cur.contentLength # base.contentLength
                   \/ cur.segmentsLength # base.segmentsLength)
C27_SignatureEqualIffAllFieldsMatch == [][C27_Step]_vars

\* the signature path alone has ended the job, on a transcription whose
\* segments are a string of the largest length
C27_Witness ==
    /\ lastEnd = "signature"
    /\ ~isRetranscribing
    /\ retranscribeBaseline = NoBaseline
    /\ sessions["s1"].transcription.segments = [kind |-> "string", len |-> MaxLen]

\* handle h was removed from the map and a newer handle is registered under
\* its name
IsSuperseded(h) ==
    /\ chanState[h] \in {"live", "torn"}
    /\ activeChannels[chanName[h]] \notin {NoHandle, h}

\* C29: when the status callback of a handle that was removed runs with
\* CLOSED while a newer handle is registered under the same name, the entry
\* of the newer handle stays and its subscription is left as it was.
C29_Step ==
    \A h \in Handles :
        (/\ IsSuperseded(h)
         /\ lastOp'.op = "CLOSED"
         /\ chanState'[h] = "closed")
        => /\ activeChannels'[chanName[h]] = activeChannels[chanName[h]]
           /\ chanState'[activeChannels[chanName[h]]] = chanState[activeChannels[chanName[h]]]
C29_LateStatusSparesNewerHandle == [][C29_Step]_vars

\* C24: an event delivered while document.hidden is true is discarded: the
\* callback is not invoked and the map stays as it was.
C24_Step ==
    (lastOp'.op = "event" /\ lastOp'.doc = "hidden") =>
        /\ ~lastOp'.invoked
        /\ lastOp'.cb = "none"
        /\ activeChannels' = activeChannels
C24_HiddenEventDiscarded == [][C24_Step]_vars

\* an event that passed the session filter was discarded on a hidden document
C24_Witness ==
    /\ lastOp.op = "event"
    /\ lastOp.doc = "hidden"
    /\ lastOp.passes
    /\ ~lastOp.invoked
    /\ activeChannels[lastOp.name] # NoHandle

\* C25: when the callback throws, the handler lets nothing out, the map and
\* the subscriptions stay as they were, and the event that follows, on any
\* channel, is handed to its callback if the document is not hidden and the
\* event passes the filter.
C25_Step ==
    /\ (lastOp'.op = "event" /\ lastOp'.cb = "throw") =>
          /\ ~lastOp'.raised
          /\ activeChannels' = activeChannels
          /\ chanState' = chanState
    /\ (/\ lastOp.op = "event" /\ lastOp.cb = "throw"
        /\ lastOp'.op = "event" /\ lastOp'.doc # "hidden" /\ lastOp'.passes)
       => lastOp'.invoked
C25_CallbackExceptionContained == [][C25_Step]_vars

\* a callback threw while both names had a handle
C25_Witness ==
    /\ lastOp.op = "event"
    /\ lastOp.invoked /\ lastOp.cb = "throw"
    /\ ~lastOp.raised
    /\ \A n \in Names : activeChannels[n] # NoHandle

\* C28: healthCheck() leaves the map and the subscriptions as they were,
\* whatever the age of the names, and returns the number and the names of
\* the entries of the map.
C28_Step ==
    (lastOp'.op = "healthCheck") =>
        /\ activeChannels' = activeChannels
        /\ chanState' = chanState
        /\ lastOp'.count = Cardinality({n \in Names : activeChannels'[n] # NoHandle})
        /\ lastOp'.channels = {n \in Names : activeChannels'[n] # NoHandle}
C28_HealthCheckAdvisoryOnly == [][C28_Step]_vars

\* healthCheck warned about n2, older than an hour, and n2 is still tracked
C28_Witness ==
    /\ lastOp.op = "healthCheck"
    /\ lastOp.warned = {"n2"}
    /\ activeChannels["n2"] # NoHandle
    /\ lastOp.count = getActiveChannelCount

(***************************************************************************)
(* The submission operations of APIClient. Each posts to its endpoint and  *)
(* looks at the answer; pollV2TaskStatus is taken by how its promise       *)
(* settles: resolved with the result of the task, or rejected for one of   *)
(* the five reasons.                                                       *)
(***************************************************************************)
SubmissionOps ==
    {"finalizeSession", "generateSummary", "generateSessionSummary", "retranscribeSession"}

PollFailures == {"TaskFailure", "TaskCancelled", "PollTimeout", "AuthError", "NetworkError"}
PollSettlements == {"resolved"} \cup PollFailures

\* private isAsyncResponse(response): 'task_id' in response && 'poll_url' in response
isAsyncResponse(resp) == resp.task_id # NoTaskId /\ resp.poll_url

\* whether the operation calls pollV2TaskStatus on an ok answer
StartsPoll(op, resp) ==
    IF op = "finalizeSession" THEN resp.task_id # NoTaskId /\ resp.started
    ELSE IF op = "generateSummary" THEN isAsyncResponse(resp)
    ELSE TRUE

\* the argument data.task_id / taskData.task_id of pollV2TaskStatus
PolledTaskId(resp) == IF resp.task_id = NoTaskId THEN "undefined" ELSE resp.task_id

\* await this.pollV2TaskStatus(...), against .then(...).catch(...) on it
AwaitsPoll(op) == op # "retranscribeSession"

\* an operation is called and runs to its return or to the await of its poll;
\* v1ok says whether the V1 request retranscribeSession falls back to succeeds
Submit ==
    /\ subReturn # "none" \/ subOp = "none"
    /\ subPoll # "running"
    /\ \E op \in SubmissionOps, resp \in Responses, v1ok \in BOOLEAN :
         /\ subOp' = op
         /\ subResponse' = resp
         /\ IF ~resp.ok
            THEN \* throw new Error(...); retranscribeSession catches it
                 /\ subPolled' = "none"
                 /\ subPoll' = "none"
                 /\ subReturn' = IF op = "retranscribeSession" /\ v1ok
                                  THEN "success" ELSE "failure"
            ELSE IF StartsPoll(op, resp)
            THEN /\ subPolled' = PolledTaskId(resp)
                 /\ subPoll' = "running"
                 /\ subReturn' = IF AwaitsPoll(op) THEN "none" ELSE "success"
            ELSE /\ subPolled' = "none"
                 /\ subPoll' = "none"
                 /\ subReturn' = "success"
    /\ UNCHANGED <<pollVars, chanVars, watchVars>>

\* the promise of the running poll settles
PollSettles ==
    /\ subPoll = "running"
    /\ \E o \in PollSettlements :
         /\ subPoll' = o
         /\ subReturn' = IF AwaitsPoll(subOp)
                          THEN (IF o = "resolved" THEN "success" ELSE "failure")
                          ELSE subReturn
    /\ UNCHANGED <<subOp, subResponse, subPolled>>
    /\ UNCHANGED <<pollVars, chanVars, watchVars>>

InitSubmit == ManagerConstructed /\ PollNotCalled /\ PageNotUsed /\ NoSubmission

NextSubmit ==
    \/ Submit
    \/ PollSettles

SpecSubmit == InitSubmit /\ [][NextSubmit]_vars

\* C22: when the poll an operation started has failed, the caller of the
\* operation has got a failure.
C22_PollFailureSurfaced == subPoll \in PollFailures => subReturn = "failure"

\* C23: on an ok answer without a task id the operation returns the result
\* and calls no poll; on an ok answer with a task id it polls that id.
C23_BothShapesAccepted ==
    (subOp # "none" /\ subResponse.ok) =>
        IF subResponse.task_id = NoTaskId
        THEN subPolled = "none" /\ subReturn = "success"
        ELSE subPolled = subResponse.task_id

\* the job the watch belongs to: the last accepted submission
CurrentJob == nextJob - 1

\* C31: a fallbackCheck that sets isRetranscribing to false and clears the
\* baseline belongs to the chain of the job in flight, never to the chain
\* of an earlier job.
C31_Step ==
    \A j \in Jobs :
        (/\ jobPc[j] \in {"armed", "overdue"} /\ jobPc'[j] = "done"
         /\ isRetranscribing /\ ~isRetranscribing'
         /\ lastEnd' \in {"fallbackCompleted", "fallbackTimeout"})
        => j = CurrentJob
C31_FallbackEndsOwnJobOnly == [][C31_Step]_vars

(***************************************************************************)
(* Further properties of pollV2TaskStatus, checked under SpecPoll.         *)
(***************************************************************************)
backendTerminal(o) == o.type = "json" /\ o.status \in {"failed", "cancelled"}

\* C32: a fetch that returns status failed with an error text that holds 403
\* rejects the poll on that attempt with that text, as a task failure; and a
\* fetch that returns failed or cancelled is handled neither with the short
\* sleep of an authorization error nor by rejecting with the authorization
\* error.
C32_BackendFailureNeverAuth ==
    /\ (last.did # "none" /\ last.o.type = "json" /\ last.o.status = "failed"
          /\ Includes403(last.o.error)) =>
           /\ last.did = "throw"
           /\ pc = "done"
           /\ settled = Rejected(last.o.error)
    /\ (last.did # "none" /\ backendTerminal(last.o)) =>
           /\ ~(last.did = "sleep" /\ last.ms = AuthDelayMs)
           /\ (settled.kind = "rejected" => ~IsAuthError(settled.msg))

\* C33: when every fetch of the poll failed with HTTP 403, the poll ends by
\* rejecting with the authorization error, for every maxAttempts.
C33_All403EndsInAuthError ==
    (all403 /\ last.did # "none" /\ pc = "done") =>
        /\ settled.kind = "rejected"
        /\ IsAuthError(settled.msg)
        /\ settled.msg # TimeoutMsg(maxAttempts)

\* the scheduling termination relies on: every status fetch produces an
\* outcome (an answer or an error) and every setTimeout fires
SpecPollFair == SpecPoll /\ WF_vars(NextPoll)

\* C34: whatever the fetches produce, the poll never issues more than
\* maxAttempts status fetches, and its promise settles, resolved or rejected.
C34_TerminatesWithinMaxAttempts ==
    /\ [](fetches <= maxAttempts)
    /\ <>(pc = "done" /\ settled.kind \in {"resolved", "rejected"})

\* a poll of mixed outcomes has used its whole budget and is settled
C34_Witness ==
    /\ pc = "done"
    /\ settled.kind = "rejected"
    /\ fetches = maxAttempts
    /\ maxAttempts = MaxAttemptsBound
    /\ ~all403 /\ ~allNonTerminal

\* C35: the poll is resolved only by a fetch that returned status completed
\* with a result payload, and with that payload; a fetch that returned
\* completed without a result payload does not resolve it.
C35_ResolvesOnlyWithResult ==
    /\ settled.kind = "resolved" =>
          /\ last.o.type = "json" /\ last.o.status = "completed"
          /\ last.o.result \in Results
          /\ settled.val = last.o.result
          /\ last.did = "return"
    /\ (last.did # "none" /\ last.o = JsonOutcome("completed", NoResult, NoMsg)) =>
          /\ last.did # "return"
          /\ settled.kind # "resolved"

\* a fetch returned completed without a result and the poll went on
C35_Witness ==
    /\ last.o = JsonOutcome("completed", NoResult, NoMsg)
    /\ last.did = "next"
    /\ pc = "fetching"
    /\ settled = Unsettled

\* C36: once a job has ended (isRetranscribing is false again), no step but
\* an accepted submission sets isRetranscribing to true, and no step at all
\* leaves hasSeenProcessing true, whatever refreshes arrive.
C36_Step ==
    (nextJob > 1 /\ ~isRetranscribing) =>
        /\ isRetranscribing' => nextJob' = nextJob + 1
        /\ ~hasSeenProcessing'
C36_LateRefreshesLeaveFlagsFalse == [][C36_Step]_vars

\* after the end of a job a refresh reported the selected session as
\* processing, the effect has run on it and both flags are false
C36_Witness ==
    /\ nextJob > 1
    /\ lastEnd \in {"intermediate", "signature", "both", "fallbackCompleted"}
    /\ selectedSessionId # NoSelection
    /\ sessions[selectedSessionId].status = "processing"
    /\ jobSession[CurrentJob] = selectedSessionId
    /\ ~effectPending
    /\ ~isRetranscribing /\ ~hasSeenProcessing

\* C37: while a job is in flight, a run of the status-watch effect that
\* reads a session other than the job's leaves isRetranscribing,
\* hasSeenProcessing and the baseline as they were.
C37_Step ==
    (/\ isRetranscribing
     /\ effectPending
     /\ selectedSessionId # jobSession[CurrentJob])
    => UNCHANGED <<isRetranscribing, hasSeenProcessing, retranscribeBaseline>>
C37_OtherRecordLeavesWatch == [][C37_Step]_vars

\* the call of handleRetranscribe for job j is before its
\* setTimeout(fallbackCheck, 400)
BeforeFallback(j) == jobPc[j] \in {"delay", "calling", "fetching"}

\* C38: when the call of handleRetranscribe for a job ends in its catch block
\* (no API client, success false, or fetchSessions throwing), it leaves
\* isRetranscribing false, hasSeenProcessing false and the baseline null, and
\* no fallbackCheck is ever scheduled for that job.
C38_Step ==
    \A j \in Jobs :
        /\ (BeforeFallback(j) /\ jobPc'[j] = "done") =>
              /\ ~isRetranscribing'
              /\ ~hasSeenProcessing'
              /\ retranscribeBaseline' = NoBaseline
        /\ (jobPc[j] = "done") => (jobPc'[j] = "done")
C38_FailedSubmissionReturnsToIdle == [][C38_Step]_vars

\* the request of the last job was answered with success false and the page
\* is idle again
C38_Witness ==
    /\ nextJob > 1
    /\ jobPc[CurrentJob] = "done"
    /\ lastEnd = "catch"
    /\ ~isRetranscribing /\ ~hasSeenProcessing
    /\ retranscribeBaseline = NoBaseline
    /\ \A j \in Jobs : jobPc[j] \notin {"armed", "overdue"}

\* this step starts a job: a call of handleRetranscribe went past its guards
StartsJob ==
    \/ nextJob' # nextJob
    \/ \E j \in Jobs : jobPc[j] = "unused" /\ jobPc'[j] # "unused"

\* C39: a job is started, and isRetranscribing set to true, only in a step
\* taken with a session selected that is in the list with status completed;
\* the job is then on that session.
C39_Step ==
    (StartsJob \/ (~isRetranscribing /\ isRetranscribing')) =>
        /\ selectedSessionId # NoSelection
        /\ sessions[selectedSessionId].status # "absent"
        /\ sessions[selectedSessionId].status = "completed"
        /\ jobSession'[nextJob] = selectedSessionId
        /\ jobPc'[nextJob] = "delay"
C39_SubmitsOnlyCompletedSelected == [][C39_Step]_vars

\* the first job was started on s1 while s2 was gone from the list
C39_Witness ==
    /\ nextJob = 2
    /\ jobPc[1] = "delay"
    /\ jobSession[1] = "s1"
    /\ selectedSessionId = "s1"
    /\ sessions["s2"].status = "absent"
    /\ isRetranscribing

\* C40: a create call whose transport open threw returned null, let no
\* exception out and left the name without an entry; and a create call on a
\* name whose last create call returned null is not answered from the map:
\* it opens a subscription, or fails the same way.
C40_FailedCreateReturnsNull ==
    IsCreate(lastOp.op) =>
        /\ (lastOp.ret = NoHandle) =>
              /\ ~lastOp.raised
              /\ ~lastOp.opened
              /\ ~hasChannel(lastOp.name)
        /\ ~lastOp.raised
        /\ (lastOp.prev = NoHandle) => (lastOp.opened \/ lastOp.ret = NoHandle)

\* after a create call on a name returned null, the next create call on the
\* name opened a subscription and registered it
C40_Witness ==
    /\ IsCreate(lastOp.op)
    /\ lastOp.prev = NoHandle
    /\ lastOp.opened
    /\ lastOp.ret # NoHandle
    /\ activeChannels[lastOp.name] = lastOp.ret

====
